---- MODULE Spec2Model ----
(***************************************************************************)
(* Model of the two training scripts of PatternFlow/recognition:           *)
(*   s46704847_diffusion_OASIS/train.py  (diffusion trainer)               *)
(*   s46967307-VQVAE/model/train.py      (VQ-VAE trainer)                  *)
(* and of the pure computations of s46967307-VQVAE/model/modules.py:       *)
(*   PixelConvLayer.build (kernel mask), get_indices / VQ.call (nearest    *)
(*   codebook row) and the layer shapes of AE.                             *)
(***************************************************************************)
EXTENDS Integers, Sequences, FiniteSets, TLC

(***************************************************************************)
(* Program constants.                                                      *)
(***************************************************************************)
\* diffusion train.py: EPOCS = 30
EPOCS == 30
\* VQ-VAE train.py: model.fit(..., epochs=2, ...)
FitEpochs == 2
\* modules.py: latent_dims = 8
latent_dims == 8
\* modules.py: encoder_depth = 6
encoder_depth == 6

(***************************************************************************)
(* Bounds of the model.                                                    *)
(***************************************************************************)
\* largest number of batches the batched training set is drawn with
MaxBatches == 3

VARIABLES
    script,     \* which script is being run: "diffusion" or "vqvae"
    pc,         \* the statement the script is about to execute
    e,          \* epoch number (loop variable e / the epoch of fit)
    i,          \* number of the batch being trained on in this epoch
    nBatches,   \* len(train_images): batches per epoch
    saved,      \* checkpoint numbers handed to ckpt_manager.save, in order
    models,     \* targets handed to model.save, in order
    failedAt,   \* the statement that raised, "" while none has
    log         \* history of the executed statements: <<event, epoch, batch>>

\* PixelConvLayer.build
VARIABLES
    mpc,        \* the statement build is about to execute
    mask_type,  \* self.mask_type
    kernel_shape, \* self.conv.kernel.get_shape(): <<kh, kw, channels>>
    mask        \* self.mask: [position -> 0 or 1]

\* AE.__init__ and AE.call / AE.train_step
VARIABLES
    apc,        \* the statement about to be executed
    x,          \* the shape of the symbolic tensor x while the models are built
    n,          \* loop variable n
    layers,     \* the layers applied to x so far, in order
    encoder,    \* self.encoder: its input shape and its layers, in order
    vq,         \* self.vq
    decoder,    \* self.decoder
    image,      \* shape of the batch of images handed to AE.call
    t,          \* shape of the tensor flowing through AE.call
    layer       \* number of layers of the current sub-model already applied

\* get_indices and VQ.call
VARIABLES
    vpc,        \* "start", then which of the two calls has returned
    embeddings, \* self.embeddings: the codebook, one row per embedding
    inputs,     \* the tensor handed to VQ.call: its shape and its elements
    indices,    \* what get_indices(..., quantize=False) returned
    results,    \* what get_indices returned to VQ.call (line 140)
    outputs     \* what VQ.call returned

scriptVars == <<script, pc, e, i, nBatches, saved, models, failedAt, log>>

maskVars == <<mpc, mask_type, kernel_shape, mask>>

aeVars == <<apc, x, n, layers, encoder, vq, decoder, image, t, layer>>

vqVars == <<vpc, embeddings, inputs, indices, results, outputs>>

vars == <<scriptVars, maskVars, aeVars, vqVars>>

\* the state of the parts of the program a specification does not run
ScriptIdle ==
    /\ script = "none" /\ pc = "idle" /\ e = 0 /\ i = 0 /\ nBatches = 0
    /\ saved = << >> /\ models = << >> /\ failedAt = "" /\ log = << >>

MaskIdle ==
    /\ mpc = "idle" /\ mask_type = "" /\ kernel_shape = << >> /\ mask = << >>

VQIdle ==
    /\ vpc = "idle" /\ embeddings = << >> /\ inputs = << >> /\ indices = << >>
    /\ results = << >> /\ outputs = << >>

AEIdle ==
    /\ apc = "idle" /\ x = << >> /\ n = 0 /\ layers = << >> /\ encoder = << >> /\ vq = << >>
    /\ decoder = << >> /\ image = << >> /\ t = << >> /\ layer = 0

Ev(name) == <<name, e, i>>

(***************************************************************************)
(* diffusion train.py, module top level.                                   *)
(***************************************************************************)
\* lines 31-33: images = normalize(get_zipped_dataset(...)[:N]);
\*              train_images = set_train_batch(images, BATCH_SIZE)
\* The dataset holds images (NUMBER_OF_SAMPLES = 2000 of them are taken, in
\* batches of BATCH_SIZE = 64), so there is at least one batch.
DLoadDataset ==
    /\ pc = "d_load"
    /\ \E nb \in 1..MaxBatches : nBatches' = nb
    /\ log' = log \o << Ev("load"), Ev("batch_dataset") >>
    /\ pc' = "d_construct"
    /\ UNCHANGED <<script, e, i, saved, models, failedAt, maskVars, aeVars, vqVars>>

\* line 36: unet, ckpt_manager = get_checkpoint(CKPT_PATH)
DGetCheckpoint ==
    /\ pc = "d_construct"
    /\ log' = Append(log, Ev("construct"))
    /\ pc' = "d_opt"
    /\ UNCHANGED <<script, e, i, nBatches, saved, models, failedAt, maskVars, aeVars, vqVars>>

\* lines 39-40: rng = 0; opt = tf.keras.optimizers.Adam(learning_rate=1e-4)
DOptimizer ==
    /\ pc = "d_opt"
    /\ log' = Append(log, Ev("optimizer"))
    /\ pc' = "d_epoch"
    /\ UNCHANGED <<script, e, i, nBatches, saved, models, failedAt, maskVars, aeVars, vqVars>>

\* lines 56-58: for e in range(1, EPOCS+1): bar = ...; losses = []
DEpochBegin ==
    /\ pc = "d_epoch"
    /\ e < EPOCS
    /\ e' = e + 1
    /\ i' = 0
    /\ pc' = "d_batch"
    /\ UNCHANGED <<script, nBatches, saved, models, failedAt, log, maskVars, aeVars, vqVars>>

\* line 56: range(1, EPOCS+1) is exhausted, the script ends
DLoopExit ==
    /\ pc = "d_epoch"
    /\ e >= EPOCS
    /\ pc' = "done"
    /\ UNCHANGED <<script, e, i, nBatches, saved, models, failedAt, log, maskVars, aeVars, vqVars>>

\* line 59: for i, batch in enumerate(iter(train_images)): next batch
DNextBatch ==
    /\ pc = "d_batch"
    /\ i < nBatches
    /\ i' = i + 1
    /\ pc' = "d_forward"
    /\ UNCHANGED <<script, e, nBatches, saved, models, failedAt, log, maskVars, aeVars, vqVars>>

\* line 59: the batches of this epoch are exhausted
DBatchesDone ==
    /\ pc = "d_batch"
    /\ i >= nBatches
    /\ pc' = "d_save"
    /\ UNCHANGED <<script, e, i, nBatches, saved, models, failedAt, log, maskVars, aeVars, vqVars>>

\* train_step lines 42-49: timesteps, forward_noise, prediction, loss_fn
DTrainForward ==
    /\ pc = "d_forward"
    /\ log' = log \o << Ev("noise"), Ev("loss") >>
    /\ pc' = "d_apply"
    /\ UNCHANGED <<script, e, i, nBatches, saved, models, failedAt, maskVars, aeVars, vqVars>>

\* train_step lines 51-54 and lines 62-63: gradients, opt.apply_gradients,
\* return loss_value; losses.append(loss); bar.update(...)
DTrainApply ==
    /\ pc = "d_apply"
    /\ log' = Append(log, Ev("apply"))
    /\ pc' = "d_batch"
    /\ UNCHANGED <<script, e, i, nBatches, saved, models, failedAt, maskVars, aeVars, vqVars>>

\* DSaveCheckpoint as it would be with the epochs counted from 0
DSaveCheckpointFromZero ==
    /\ pc = "d_save"
    /\ saved' = Append(saved, e - 1)
    /\ log' = Append(log, Ev("save"))
    /\ pc' = "d_epoch"
    /\ UNCHANGED <<script, e, i, nBatches, models, failedAt, maskVars, aeVars, vqVars>>

\* lines 65-67: avg = np.mean(losses); print; ckpt_manager.save(checkpoint_number=e)
DSaveCheckpoint ==
    /\ pc = "d_save"
    /\ saved' = Append(saved, e)
    /\ log' = Append(log, Ev("save"))
    /\ pc' = "d_epoch"
    /\ UNCHANGED <<script, e, i, nBatches, models, failedAt, maskVars, aeVars, vqVars>>

(***************************************************************************)
(* VQ-VAE train.py, module top level.                                      *)
(***************************************************************************)
\* line 14: model = AE()
VConstruct ==
    /\ pc = "v_construct"
    /\ log' = Append(log, Ev("construct"))
    /\ pc' = "v_compile"
    /\ UNCHANGED <<script, e, i, nBatches, saved, models, failedAt, maskVars, aeVars, vqVars>>

\* VCompile as it would be were fit called without the data being loaded
VCompileThenFit ==
    /\ pc = "v_compile"
    /\ log' = Append(log, Ev("optimizer"))
    /\ pc' = "v_fit"
    /\ UNCHANGED <<script, e, i, nBatches, saved, models, failedAt, maskVars, aeVars, vqVars>>

\* lines 15-19: model.compile(optimizer='adam'); the three summaries
VCompile ==
    /\ pc = "v_compile"
    /\ log' = Append(log, Ev("optimizer"))
    /\ pc' = "v_load"
    /\ UNCHANGED <<script, e, i, nBatches, saved, models, failedAt, maskVars, aeVars, vqVars>>

\* line 23: data = load_data()
VLoadData ==
    /\ pc = "v_load"
    /\ \E nb \in 1..MaxBatches : nBatches' = nb
    /\ log' = Append(log, Ev("load"))
    /\ pc' = "v_fit"
    /\ UNCHANGED <<script, e, i, saved, models, failedAt, maskVars, aeVars, vqVars>>

\* lines 28-32: model.fit(..., epochs=2, ...): the next epoch begins
VFitEpochBegin ==
    /\ pc = "v_fit"
    /\ e < FitEpochs
    /\ e' = e + 1
    /\ i' = 0
    /\ pc' = "v_batch"
    /\ UNCHANGED <<script, nBatches, saved, models, failedAt, log, maskVars, aeVars, vqVars>>

\* VFitReturn as it would be were fit to return one epoch early
VFitReturnEarly ==
    /\ pc = "v_fit"
    /\ e >= FitEpochs - 1
    /\ log' = Append(log, Ev("fit_done"))
    /\ pc' = "v_predict"
    /\ UNCHANGED <<script, e, i, nBatches, saved, models, failedAt, maskVars, aeVars, vqVars>>

\* lines 28-33: fit has run its epochs and returns
VFitReturn ==
    /\ pc = "v_fit"
    /\ e >= FitEpochs
    /\ log' = Append(log, Ev("fit_done"))
    /\ pc' = "v_predict"
    /\ UNCHANGED <<script, e, i, nBatches, saved, models, failedAt, maskVars, aeVars, vqVars>>

\* fit: the next batch of the epoch is handed to AE.train_step
VNextBatch ==
    /\ pc = "v_batch"
    /\ i < nBatches
    /\ i' = i + 1
    /\ pc' = "v_forward"
    /\ UNCHANGED <<script, e, nBatches, saved, models, failedAt, log, maskVars, aeVars, vqVars>>

\* fit: the batches of this epoch are exhausted
VBatchesDone ==
    /\ pc = "v_batch"
    /\ i >= nBatches
    /\ pc' = "v_fit"
    /\ UNCHANGED <<script, e, i, nBatches, saved, models, failedAt, log, maskVars, aeVars, vqVars>>

\* AE.train_step, modules.py lines 214-222: out = self.call(x); rc_loss,
\* vq_loss, loss
VTrainForward ==
    /\ pc = "v_forward"
    /\ log' = Append(log, Ev("loss"))
    /\ pc' = "v_apply"
    /\ UNCHANGED <<script, e, i, nBatches, saved, models, failedAt, maskVars, aeVars, vqVars>>

\* AE.train_step, modules.py lines 224-229: gradients, apply_gradients
VTrainApply ==
    /\ pc = "v_apply"
    /\ log' = Append(log, Ev("apply"))
    /\ pc' = "v_batch"
    /\ UNCHANGED <<script, e, i, nBatches, saved, models, failedAt, maskVars, aeVars, vqVars>>

\* line 35: predictions = model.predict(data["test"])
VPredict ==
    /\ pc = "v_predict"
    /\ log' = Append(log, Ev("predict"))
    /\ pc' = "v_save"
    /\ UNCHANGED <<script, e, i, nBatches, saved, models, failedAt, maskVars, aeVars, vqVars>>

\* lines 38-40: model.save("model.ckpt")
VSave ==
    /\ pc = "v_save"
    /\ models' = Append(models, "model.ckpt")
    /\ log' = Append(log, Ev("save"))
    /\ pc' = "done"
    /\ UNCHANGED <<script, e, i, nBatches, saved, failedAt, maskVars, aeVars, vqVars>>

(***************************************************************************)
(* A failure: neither script has a try/except, so an exception raised by   *)
(* the statement about to run ends the process there.                      *)
(***************************************************************************)
\* Fail as it would be were the exception caught and the run continued
FailCaught ==
    /\ pc \notin {"done", "failed"}
    /\ failedAt = ""
    /\ failedAt' = pc
    /\ log' = Append(log, Ev("fail"))
    /\ pc' = IF pc \in {"d_forward", "d_apply"} THEN "d_batch"
             ELSE IF pc \in {"v_forward", "v_apply"} THEN "v_batch"
             ELSE IF pc = "v_predict" THEN "v_save"
             ELSE "failed"
    /\ UNCHANGED <<script, e, i, nBatches, saved, models, maskVars, aeVars, vqVars>>

Fail ==
    /\ pc \notin {"done", "failed"}
    /\ failedAt' = pc
    /\ log' = Append(log, Ev("fail"))
    /\ pc' = "failed"
    /\ UNCHANGED <<script, e, i, nBatches, saved, models, maskVars, aeVars, vqVars>>

Init ==
    /\ script \in {"diffusion", "vqvae"}
    /\ pc = IF script = "diffusion" THEN "d_load" ELSE "v_construct"
    /\ e = 0
    /\ i = 0
    /\ nBatches = 0
    /\ saved = << >>
    /\ models = << >>
    /\ failedAt = ""
    /\ log = << >>
    /\ MaskIdle
    /\ AEIdle
    /\ VQIdle

Next ==
    \/ DLoadDataset \/ DGetCheckpoint \/ DOptimizer
    \/ DEpochBegin \/ DLoopExit \/ DNextBatch \/ DBatchesDone
    \/ DTrainForward \/ DTrainApply \/ DSaveCheckpoint
    \/ VConstruct \/ VCompile \/ VLoadData
    \/ VFitEpochBegin \/ VFitReturn \/ VNextBatch \/ VBatchesDone
    \/ VTrainForward \/ VTrainApply \/ VPredict \/ VSave
    \/ Fail

Spec == Init /\ [][Next]_vars

(***************************************************************************)
(* Properties of the two scripts.                                          *)
(***************************************************************************)
Last(s) == s[Len(s)]

\* positions of the log at which a statement of this name was executed
Pos(name) == {k \in DOMAIN log : log[k][1] = name}

Count(name) == Cardinality(Pos(name))

\* every execution of a comes before every execution of b, and a was executed
\* if b was
Before(a, b) ==
    Pos(b) # {} => /\ Pos(a) # {}
                   /\ \A k \in Pos(b) : \A j \in Pos(a) : j < k

\* every save comes after a gradient application that itself follows a loss
SaveAfterTraining ==
    \A s \in Pos("save") :
        \E a \in Pos("apply") : a < s /\ \E l \in Pos("loss") : l < a

\* the model and the dataset both exist before the first training step
TrainingAfterSetup ==
    \A k \in Pos("loss") :
        /\ \E j \in Pos("load") : j < k
        /\ \E j \in Pos("construct") : j < k

\* C1 as stated: in both scripts the dataset is loaded before the model is
\* constructed, the model is constructed before any training step, and
\* saving happens only after training steps have run.
C1_AsStated ==
    /\ Before("load", "construct")
    /\ Before("construct", "loss")
    /\ SaveAfterTraining

\* C1 (amended): the diffusion trainer loads and batches the dataset before it
\* constructs the model, the VQ-VAE trainer constructs and compiles the model
\* before it loads the dataset; in both, dataset and model exist before the
\* first training step, and every save follows a loss computation and the
\* gradient application after it.
C1_Order ==
    /\ script = "diffusion" => Before("load", "construct")
    /\ script = "vqvae" => Before("construct", "load")
    /\ TrainingAfterSetup
    /\ Before("construct", "loss")
    /\ SaveAfterTraining

C1_Witness ==
    /\ script = "vqvae"
    /\ pc = "done"
    /\ Pos("save") # {}

\* the train steps (loss, then apply) of epoch ep: one of each per batch
TrainedOncePerBatch(ep) ==
    \A b \in 1..nBatches :
        /\ Cardinality({k \in DOMAIN log : log[k] = <<"loss", ep, b>>}) = 1
        /\ Cardinality({k \in DOMAIN log : log[k] = <<"apply", ep, b>>}) = 1

\* C3: in the diffusion trainer the checkpoints saved so far are numbered
\* 1, 2, ..., n in this order, the n-th is saved when exactly n epochs of
\* train steps (one per batch) have run and none of the next, so none is saved
\* before the first epoch completes; the run that does not fail ends after
\* EPOCS epochs with checkpoints 1..EPOCS saved, and it never stops earlier.
C3_CheckpointPerEpoch ==
    script = "diffusion" =>
        /\ \A k \in 1..Len(saved) : saved[k] = k
        /\ Count("save") = Len(saved)
        /\ Len(saved) <= EPOCS
        /\ Count("apply") >= Len(saved) * nBatches
        /\ Count("apply") <= (Len(saved) + 1) * nBatches
        /\ (log # << >> /\ Last(log)[1] = "save") =>
              /\ Last(saved) = Last(log)[2]
              /\ Count("apply") = Len(saved) * nBatches
              /\ Count("loss") = Len(saved) * nBatches
              /\ TrainedOncePerBatch(Last(saved))
        /\ pc = "done" =>
              /\ Len(saved) = EPOCS
              /\ Count("apply") = EPOCS * nBatches
        /\ pc \in {"done", "failed"} \/ ENABLED Next

C3_Witness ==
    /\ script = "diffusion"
    /\ pc = "done"
    /\ nBatches = MaxBatches
    /\ Len(saved) = EPOCS

\* statements of the diffusion trainer that belong to the body of epoch e
InEpochBody == {"d_batch", "d_forward", "d_apply", "d_save"}

\* statements of the VQ-VAE trainer from fit up to predict
FitOrPredict == {"v_fit", "v_batch", "v_forward", "v_apply", "v_predict"}

C4_FailedState ==
    failedAt # "" =>
        /\ pc = "failed"
        /\ Last(log)[1] = "fail"
        /\ Count("fail") = 1
        /\ (script = "diffusion" /\ failedAt \in InEpochBody) =>
              /\ Len(saved) = e - 1
              /\ \A k \in 1..Len(saved) : saved[k] = k
        /\ (script = "vqvae" /\ failedAt \in FitOrPredict) =>
              /\ models = << >>
              /\ Pos("save") = {}

\* C4: a failure of the statement about to run is not caught or retried: the
\* process stops there and nothing runs afterwards.  A failure inside epoch e
\* of the diffusion trainer leaves exactly the checkpoints 1..e-1 saved, a
\* failure during fit or predict of the VQ-VAE trainer leaves no model saved.
C4_FailureIsFinal ==
    /\ [] C4_FailedState
    /\ [][failedAt # "" => UNCHANGED vars]_vars

C4_Witness ==
    /\ script = "diffusion"
    /\ failedAt = "d_apply"
    /\ e = 3
    /\ saved = <<1, 2>>

\* C5: the VQ-VAE trainer saves the model at most once, to "model.ckpt", as
\* its last statement: fit has then run FitEpochs epochs of train steps over
\* every batch and returned, and predict has run after fit; the run that does
\* not fail ends with the model saved, and it never stops earlier.
C5_SaveOnceAtEnd ==
    script = "vqvae" =>
        /\ Len(models) <= 1
        /\ Count("save") = Len(models)
        /\ models # << >> =>
              /\ models = << "model.ckpt" >>
              /\ pc = "done"
              /\ Last(log)[1] = "save"
              /\ Count("apply") = FitEpochs * nBatches
              /\ \A ep \in 1..FitEpochs : TrainedOncePerBatch(ep)
              /\ Count("fit_done") = 1
              /\ Count("predict") = 1
              /\ Before("apply", "fit_done")
              /\ Before("fit_done", "predict")
              /\ Before("predict", "save")
        /\ pc = "done" => models = << "model.ckpt" >>
        /\ pc \in {"done", "failed"} \/ ENABLED Next

C5_Witness ==
    /\ script = "vqvae"
    /\ pc = "done"
    /\ nBatches = MaxBatches
    /\ models = << "model.ckpt" >>

(***************************************************************************)
(* modules.py, PixelConvLayer.build: the mask of the convolution kernel.   *)
(* A kernel has the shape (rows, columns, channels in, channels out); the  *)
(* two channel axes, which every assignment of build spans with "...", are *)
(* kept as one axis.  Indices start at 0 as in the source.                 *)
(***************************************************************************)
\* largest kernel height and width
MaxKernel == 3
\* largest number of channel positions of a kernel
MaxChannels == 2

Positions(shape) ==
    (0..(shape[1] - 1)) \X (0..(shape[2] - 1)) \X (0..(shape[3] - 1))

\* mask[rows, cols, ...] = v
Assign(m, rows, cols, v) ==
    [p \in DOMAIN m |-> IF p[1] \in rows /\ p[2] \in cols THEN v ELSE m[p]]

AllColumns == 0..(kernel_shape[2] - 1)

\* lines 20-23: kernel_shape = self.conv.kernel.get_shape();
\*              self.mask = np.zeros(shape=kernel_shape)
MaskZeros ==
    /\ mpc = "zeros"
    /\ mask' = [p \in Positions(kernel_shape) |-> 0]
    /\ mpc' = "above"
    /\ UNCHANGED <<mask_type, kernel_shape, scriptVars, aeVars, vqVars>>

\* MaskAbove as it would be were the centre row included in the slice
MaskAboveInclusive ==
    /\ mpc = "above"
    /\ mask' = Assign(mask, 0..(kernel_shape[1] \div 2), AllColumns, 1)
    /\ mpc' = "left"
    /\ UNCHANGED <<mask_type, kernel_shape, scriptVars, aeVars, vqVars>>

\* line 24: self.mask[:kernel_shape[0] // 2, ...] = 1.0
MaskAbove ==
    /\ mpc = "above"
    /\ mask' = Assign(mask, 0..((kernel_shape[1] \div 2) - 1), AllColumns, 1)
    /\ mpc' = "left"
    /\ UNCHANGED <<mask_type, kernel_shape, scriptVars, aeVars, vqVars>>

\* line 25: self.mask[kernel_shape[0] // 2, :kernel_shape[1] // 2, ...] = 1.0
MaskLeft ==
    /\ mpc = "left"
    /\ mask' = Assign(mask, {kernel_shape[1] \div 2},
                      0..((kernel_shape[2] \div 2) - 1), 1)
    /\ mpc' = "centre"
    /\ UNCHANGED <<mask_type, kernel_shape, scriptVars, aeVars, vqVars>>

\* line 26: self.mask[kernel_shape[0] // 2, kernel_shape[1] // 2, ...] = 0.0
MaskCentre ==
    /\ mpc = "centre"
    /\ mask' = Assign(mask, {kernel_shape[1] \div 2},
                      {kernel_shape[2] \div 2}, 0)
    /\ mpc' = "type"
    /\ UNCHANGED <<mask_type, kernel_shape, scriptVars, aeVars, vqVars>>

\* lines 30-31: if self.mask_type == "B": self.mask[centre, ...] = 1.0
MaskTypeB ==
    /\ mpc = "type"
    /\ mask_type = "B"
    /\ mask' = Assign(mask, {kernel_shape[1] \div 2},
                      {kernel_shape[2] \div 2}, 1)
    /\ mpc' = "built"
    /\ UNCHANGED <<mask_type, kernel_shape, scriptVars, aeVars, vqVars>>

\* line 30: the mask type is not "B", build returns
MaskTypeOther ==
    /\ mpc = "type"
    /\ mask_type # "B"
    /\ mpc' = "built"
    /\ UNCHANGED <<mask_type, kernel_shape, mask, scriptVars, aeVars, vqVars>>

\* PixelConvLayer.__init__ has run: the mask type and the kernel size are set
InitMask ==
    /\ mpc = "zeros"
    /\ mask_type \in {"A", "B"}
    /\ kernel_shape \in (1..MaxKernel) \X (1..MaxKernel) \X (1..MaxChannels)
    /\ mask = << >>
    /\ ScriptIdle
    /\ AEIdle
    /\ VQIdle

NextMask ==
    \/ MaskZeros \/ MaskAbove \/ MaskLeft \/ MaskCentre
    \/ MaskTypeB \/ MaskTypeOther

SpecMask == InitMask /\ [][NextMask]_vars

CentreRow == kernel_shape[1] \div 2

CentreCol == kernel_shape[2] \div 2

MaxBatch == 8

RECURSIVE pow(_, _)
pow(b, k) == IF k = 0 THEN 1 ELSE b * pow(b, k - 1)

\* line 6
image_shape == <<256, 256, 1>>

\* line 9; int(256/pow(2,d)) truncates the quotient
encoded_image_shape ==
    <<256 \div pow(2, encoder_depth), 256 \div pow(2, encoder_depth), latent_dims>>

CeilDiv(a, b) == (a + b - 1) \div b

\* tf.keras.layers.Conv2D(filters, kernel_size=3, strides, padding="same")
Conv2D(name, filters, strides) ==
    [kind |-> "Conv2D", name |-> name, filters |-> filters, strides |-> strides]

\* tf.keras.layers.Conv2DTranspose(filters, kernel_size=3, strides, padding="same")
Conv2DTranspose(name, filters, strides) ==
    [kind |-> "Conv2DTranspose", name |-> name, filters |-> filters,
     strides |-> strides]

\* OutputShape as it would be were the convolutions built with padding="valid"
OutputShapeValid(l, sh) ==
    IF l.kind = "Conv2D"
    THEN <<(sh[1] - 3) \div l.strides + 1, (sh[2] - 3) \div l.strides + 1,
           l.filters>>
    ELSE <<sh[1] * l.strides, sh[2] * l.strides, l.filters>>

\* the shape a layer gives a tensor of shape sh: with padding "same" a
\* convolution of stride s leaves ceil(size / s), a transposed one size * s
OutputShape(l, sh) ==
    IF l.kind = "Conv2D"
    THEN <<CeilDiv(sh[1], l.strides), CeilDiv(sh[2], l.strides), l.filters>>
    ELSE <<sh[1] * l.strides, sh[2] * l.strides, l.filters>>

\* tf.keras.Model(input, x)
Model(input, ls, output) == [input |-> input, layers |-> ls, output |-> output]

\* lines 162-163: input = Input(shape=image_shape); x = input
AEEncoderInput ==
    /\ apc = "enc_input"
    /\ x' = image_shape
    /\ layers' = << >>
    /\ n' = 0
    /\ apc' = "enc_conv"
    /\ UNCHANGED <<encoder, vq, decoder, image, t, layer, scriptVars, maskVars, vqVars>>

\* lines 164-171: for n in range(encoder_depth): x = Conv2D(64, 3, strides=2,
\*                padding="same", name=f"compression_{n}")(x)
AEEncoderConv ==
    /\ apc = "enc_conv"
    /\ n < encoder_depth
    /\ LET l == Conv2D(<<"compression", n>>, 64, 2)
       IN  /\ x' = OutputShape(l, x)
           /\ layers' = Append(layers, l)
    /\ n' = n + 1
    /\ UNCHANGED <<apc, encoder, vq, decoder, image, t, layer, scriptVars, maskVars, vqVars>>

\* lines 172-180: x = Conv2D(latent_dims, 3, strides=1, padding="same",
\*                name="to_latent")(x); self.encoder = Model(input, x)
AEToLatent ==
    /\ apc = "enc_conv"
    /\ n >= encoder_depth
    /\ LET l == Conv2D(<<"to_latent", 0>>, latent_dims, 1)
       IN  encoder' = Model(image_shape, Append(layers, l), OutputShape(l, x))
    /\ apc' = "vq"
    /\ UNCHANGED <<x, n, layers, vq, decoder, image, t, layer, scriptVars, maskVars, vqVars>>

\* lines 186-188: input = Input(shape=encoded_image_shape); x = VQ()(input);
\*                self.vq = Model(input, x).  VQ.call returns
\*                inputs + stop_gradient(results - inputs): the shape of inputs
AEVQ ==
    /\ apc = "vq"
    /\ vq' = Model(encoded_image_shape, << >>, encoded_image_shape)
    /\ apc' = "dec_input"
    /\ UNCHANGED <<x, n, layers, encoder, decoder, image, t, layer, scriptVars, maskVars, vqVars>>

\* lines 194-195: input = Input(shape=encoded_image_shape); x = input
AEDecoderInput ==
    /\ apc = "dec_input"
    /\ x' = encoded_image_shape
    /\ layers' = << >>
    /\ n' = 0
    /\ apc' = "dec_conv"
    /\ UNCHANGED <<encoder, vq, decoder, image, t, layer, scriptVars, maskVars, vqVars>>

\* lines 196-203: for n in range(encoder_depth): x = Conv2DTranspose(64, 3,
\*                strides=2, padding="same", name=f"reconstruct_{n}")(x)
AEDecoderConv ==
    /\ apc = "dec_conv"
    /\ n < encoder_depth
    /\ LET l == Conv2DTranspose(<<"reconstruct", n>>, 64, 2)
       IN  /\ x' = OutputShape(l, x)
           /\ layers' = Append(layers, l)
    /\ n' = n + 1
    /\ UNCHANGED <<apc, encoder, vq, decoder, image, t, layer, scriptVars, maskVars, vqVars>>

\* lines 204-211: x = Conv2DTranspose(1, 3, strides=1, padding="same",
\*                name="to_image")(x); self.decoder = Model(input, x)
AEToImage ==
    /\ apc = "dec_conv"
    /\ n >= encoder_depth
    /\ LET l == Conv2DTranspose(<<"to_image", 0>>, 1, 1)
       IN  decoder' = Model(encoded_image_shape, Append(layers, l),
                            OutputShape(l, x))
    /\ apc' = "constructed"
    /\ UNCHANGED <<x, n, layers, vq, encoder, image, t, layer, scriptVars, maskVars, vqVars>>

\* a batch of shape sh is accepted by a model built for the input shape
Accepts(m, sh) == Tail(sh) = m.input

\* line 243, self.encoder(inputs): a batch of images enters the encoder
AECall ==
    /\ apc = "constructed"
    /\ \E b \in 1..MaxBatch : image' = <<b>> \o image_shape
    /\ t' = image'
    /\ layer' = 0
    /\ apc' = IF Accepts(encoder, image') THEN "encoder" ELSE "shape_error"
    /\ UNCHANGED <<x, n, layers, encoder, vq, decoder, scriptVars, maskVars, vqVars>>

\* the next layer of the encoder is applied
AEEncoderLayer ==
    /\ apc = "encoder"
    /\ layer < Len(encoder.layers)
    /\ t' = <<t[1]>> \o OutputShape(encoder.layers[layer + 1], Tail(t))
    /\ layer' = layer + 1
    /\ UNCHANGED <<apc, x, n, layers, encoder, vq, decoder, image, scriptVars, maskVars, vqVars>>

\* line 243, self.vq(...): the encoder's output goes through the VQ layer,
\* which returns a tensor of the shape of its input (lines 137, 149-151)
AEVQLayer ==
    /\ apc = "encoder"
    /\ layer >= Len(encoder.layers)
    /\ apc' = IF Accepts(vq, t) THEN "quantized" ELSE "shape_error"
    /\ UNCHANGED <<x, n, layers, encoder, vq, decoder, image, t, layer, scriptVars, maskVars, vqVars>>

\* line 243, self.decoder(...): the quantized tensor enters the decoder
AEDecoderCall ==
    /\ apc = "quantized"
    /\ layer' = 0
    /\ apc' = IF Accepts(decoder, t) THEN "decoder" ELSE "shape_error"
    /\ UNCHANGED <<x, n, layers, encoder, vq, decoder, image, t, scriptVars, maskVars, vqVars>>

\* the next layer of the decoder is applied
AEDecoderLayer ==
    /\ apc = "decoder"
    /\ layer < Len(decoder.layers)
    /\ t' = <<t[1]>> \o OutputShape(decoder.layers[layer + 1], Tail(t))
    /\ layer' = layer + 1
    /\ UNCHANGED <<apc, x, n, layers, encoder, vq, decoder, image, scriptVars, maskVars, vqVars>>

\* the number of elements of a tensor of shape sh
Size(sh) == sh[1] * sh[2] * sh[3] * sh[4]

\* lines 216-219 (and 233-235): out = self.call(x);
\*     tf.reshape(out, shape=tf.shape(x)) needs as many elements as x has
AEReshape ==
    /\ apc = "decoder"
    /\ layer >= Len(decoder.layers)
    /\ apc' = IF Size(t) = Size(image) THEN "reshaped" ELSE "shape_error"
    /\ UNCHANGED <<x, n, layers, encoder, vq, decoder, image, t, layer, scriptVars, maskVars, vqVars>>

InitAE ==
    /\ apc = "enc_input"
    /\ x = << >>
    /\ n = 0
    /\ layers = << >>
    /\ encoder = << >>
    /\ vq = << >>
    /\ decoder = << >>
    /\ image = << >>
    /\ t = << >>
    /\ layer = 0
    /\ ScriptIdle
    /\ MaskIdle
    /\ VQIdle

NextAE ==
    \/ AEEncoderInput \/ AEEncoderConv \/ AEToLatent \/ AEVQ
    \/ AEDecoderInput \/ AEDecoderConv \/ AEToImage
    \/ AECall \/ AEEncoderLayer \/ AEVQLayer \/ AEDecoderCall
    \/ AEDecoderLayer \/ AEReshape

SpecAE == InitAE /\ [][NextAE]_vars

\* the statements after the encoder has been built
EncoderBuilt == apc \notin {"idle", "enc_input", "enc_conv"}

\* the statements after the decoder has been built
DecoderBuilt == EncoderBuilt /\ apc \notin {"vq", "dec_input", "dec_conv"}

\* the layers of a model that halve (double) height and width
Strided(m) == {k \in DOMAIN m.layers : m.layers[k].strides = 2}

C8_ThreeHalvingLayers ==
    EncoderBuilt =>
        /\ Cardinality(Strided(encoder)) = 3
        /\ encoder.output[1] = 256 \div pow(2, 3)
        /\ encoder.output[2] = 256 \div pow(2, 3)

(***************************************************************************)
(* modules.py, get_indices and VQ.call.  A tensor is its shape and its     *)
(* elements in row-major order; indices into the codebook start at 0 as in *)
(* the source.  The codebook has NumEmbeddings rows of LatentDims          *)
(* coordinates (64 rows of 8 in modules.py, lines 5 and 7); coordinates    *)
(* are integers, so that the arithmetic of the model is exact.             *)
(***************************************************************************)
\* rows of the codebook (num_embeddings)
NumEmbeddings == 2
\* coordinates of a latent vector (latent_dims)
LatentDims == 2
\* coordinates a codebook row is drawn from
CodeValues == {0, 2}
\* coordinates an encoding is drawn from
InputValues == {0, 1}
\* batch size, height and width of the tensors handed to VQ.call
InputShapes == {<<1, 1, 1>>, <<1, 1, 2>>}

RECURSIVE SumTo(_, _)
SumTo(f, k) == IF k = 0 THEN 0 ELSE f[k] + SumTo(f, k - 1)

\* tf.reshape(tensor, shape=(-1, LatentDims)): rows of LatentDims elements
Flatten(data) ==
    [r \in 1..(Len(data) \div LatentDims) |->
        SubSeq(data, (r - 1) * LatentDims + 1, r * LatentDims)]

\* tf.reshape(rows, shape): the elements of the rows, in order
RECURSIVE Unflatten(_)
Unflatten(rows) ==
    IF rows = << >> THEN << >> ELSE Head(rows) \o Unflatten(Tail(rows))

\* inner, lines 100-102: tf.norm(x - y), the Euclidean norm.  The norm is
\* only ever compared (line 118); its square, which orders the same way, is
\* kept.
inner(xv, yv) ==
    SumTo([d \in 1..Len(xv) |-> (xv[d] - yv[d]) * (xv[d] - yv[d])], Len(xv))

\* outer, lines 93-98: the distance of y to every row of the codebook
outer(emb, yv) == [j \in 1..Len(emb) |-> inner(emb[j], yv)]

\* line 104: tf.split(inputs_flat, splits, axis=0)
Split(flat, splits) ==
    [c \in 1..splits |->
        SubSeq(flat, (c - 1) * (Len(flat) \div splits) + 1,
               c * (Len(flat) \div splits))]

\* lines 108-111: the distances of every vector of the batch
BatchResults(emb, batch) == [r \in 1..Len(batch) |-> outer(emb, batch[r])]

\* lines 106-116: the loop over the batches, tf.concat(..., axis=1)
RECURSIVE Distances(_, _, _)
Distances(emb, parts, c) ==
    IF c = 1 THEN BatchResults(emb, parts[1])
    ELSE LET before == Distances(emb, parts, c - 1)
             these == BatchResults(emb, parts[c])
         IN  [r \in 1..Len(before) |-> before[r] \o these[r]]

\* Scan as it would be were the last of several smallest values taken
RECURSIVE ScanLast(_, _, _)
ScanLast(row, k, best) ==
    IF k > Len(row) THEN best
    ELSE ScanLast(row, k + 1, IF row[k] <= row[best + 1] THEN k - 1 ELSE best)

\* Argmin with the scan that takes the last smallest value
ArgminLast(row) == ScanLast(row, 2, 0)

\* tf.math.argmin over one row: the first index of the smallest value
RECURSIVE Scan(_, _, _)
Scan(row, k, best) ==
    IF k > Len(row) THEN best
    ELSE Scan(row, k + 1, IF row[k] < row[best + 1] THEN k - 1 ELSE best)

\* line 118: tf.math.argmin(results, axis=1)
Argmin(row) == Scan(row, 2, 0)

\* tf.one_hot(index, depth)
one_hot(idx, depth) == [j \in 1..depth |-> IF j - 1 = idx THEN 1 ELSE 0]

\* tf.matmul of one row with the codebook
matmul(row, emb) ==
    [d \in 1..Len(emb[1]) |->
        SumTo([j \in 1..Len(row) |-> row[j] * emb[j][d]], Len(row))]

\* get_indices, lines 92-123
get_indices(emb, inputs_flat, quantize, splits) ==
    LET dist == Distances(emb, Split(inputs_flat, splits), splits)
        idx == [r \in 1..Len(dist) |-> Argmin(dist[r])]
    IN  IF quantize
        THEN [r \in 1..Len(idx) |-> matmul(one_hot(idx[r], NumEmbeddings), emb)]
        ELSE idx

\* a direct call get_indices(embeddings, inputs_flat, quantize=False)
CallGetIndices ==
    /\ vpc = "start"
    /\ indices' = get_indices(embeddings, Flatten(inputs.data), FALSE, 1)
    /\ vpc' = "indexed"
    /\ UNCHANGED <<embeddings, inputs, results, outputs, scriptVars, maskVars, aeVars>>

\* VQ.call, lines 136-151: flatten, get_indices (quantize=True, splits=1),
\* reshape to the shape of inputs, inputs + stop_gradient(results - inputs)
VQCall ==
    /\ vpc = "start"
    /\ LET inputs_shape == inputs.shape
           inputs_flat == Flatten(inputs.data)
           res == get_indices(embeddings, inputs_flat, TRUE, 1)
           reshaped == Unflatten(res)
       IN  /\ results' = res
           /\ outputs' =
                 [shape |-> inputs_shape,
                  data |-> [k \in 1..Len(inputs.data) |->
                              inputs.data[k] + (reshaped[k] - inputs.data[k])]]
    /\ vpc' = "quantized"
    /\ UNCHANGED <<embeddings, inputs, indices, scriptVars, maskVars, aeVars>>

\* VQ.__init__ has run (lines 125-134) and the layer is handed a tensor whose
\* last axis has LatentDims coordinates
InitVQ ==
    /\ vpc = "start"
    /\ embeddings \in [1..NumEmbeddings -> [1..LatentDims -> CodeValues]]
    /\ \E s \in InputShapes :
          inputs \in [shape : {s \o <<LatentDims>>},
                      data : [1..(s[1] * s[2] * s[3] * LatentDims) -> InputValues]]
    /\ indices = << >>
    /\ results = << >>
    /\ outputs = << >>
    /\ ScriptIdle
    /\ MaskIdle
    /\ AEIdle

NextVQ == CallGetIndices \/ VQCall

SpecVQ == InitVQ /\ [][NextVQ]_vars

\* the r-th latent vector of a tensor (its last axis)
Vector(tensor, r) ==
    SubSeq(tensor.data, (r - 1) * LatentDims + 1, r * LatentDims)

\* the number of latent vectors of a tensor
Vectors(tensor) == tensor.shape[1] * tensor.shape[2] * tensor.shape[3]

\* row j (from 0) of the codebook is nearest to v, and no earlier row is
Nearest(j, v) ==
    /\ j \in 0..(NumEmbeddings - 1)
    /\ \A k \in 0..(NumEmbeddings - 1) :
          /\ inner(embeddings[j + 1], v) <= inner(embeddings[k + 1], v)
          /\ k < j => inner(embeddings[j + 1], v) < inner(embeddings[k + 1], v)

====
